---- MODULE Spec2Model ----
(***************************************************************************)
(* Model of amazon/ionbenchmark/ion_python_benchmark_cli.py: one           *)
(* invocation of ion_python_benchmark_cli(arguments), from the argument    *)
(* dictionary to the exit status of the process.                           *)
(*                                                                         *)
(* Time is counted in integer ticks of the timer, samples are exact        *)
(* rationals [num, den] (the code divides a float by `iterations`), and    *)
(* traced memory is counted in allocation units.                           *)
(***************************************************************************)
EXTENDS Integers, Sequences, FiniteSets, TLC

\* ---------------------------------------------------------------- bounds
MaxIterations == 2      \* largest --iterations value tried
MaxWarmups    == 1      \* largest --warmups value tried
MaxDuration   == 1      \* longest single load, in timer ticks
MaxAlloc      == 2      \* highest traced-memory high-water mark of one load

\* ------------------------------------------------------- program constants
BYTES_TO_MB == 1024 * 1024

SIMPLE_ION   == "simpleIon"
ITERATOR     == "iterator"
NON_BLOCKING == "nonBlocking"

\* ------------------------------------------------------------ Python values
\* A str-or-None value of the arguments dictionary (TLA+ string payload).
NoneStr     == [isNone |-> TRUE, s |-> ""]
PyStr(x)    == [isNone |-> FALSE, s |-> x]
\* Python truthiness of a str-or-None value: None and '' are falsy.
Truthy(v)   == ~v.isNone /\ v.s # ""

\* An option value that is converted with int(): a sequence of characters.
NoneNum     == [isNone |-> TRUE, s |-> <<>>]
NumStr(cs)  == [isNone |-> FALSE, s |-> cs]

Digits == <<"0", "1", "2", "3", "4", "5", "6", "7", "8", "9">>
IsDigit(c)  == \E i \in 1..10 : Digits[i] = c
DigitVal(c) == (CHOOSE i \in 1..10 : Digits[i] = c) - 1

RECURSIVE DigitsValue(_)
DigitsValue(cs) ==
    IF cs = <<>> THEN 0
    ELSE 10 * DigitsValue(SubSeq(cs, 1, Len(cs) - 1)) + DigitVal(cs[Len(cs)])

\* int(v): TypeError for None, ValueError for a non-numeric string, else the
\* value of an optionally signed decimal literal.
PyInt(v) ==
    IF v.isNone THEN [err |-> "TypeError", n |-> 0]
    ELSE LET cs   == v.s
             sgn  == cs # <<>> /\ cs[1] \in {"-", "+"}
             body == IF sgn THEN Tail(cs) ELSE cs
         IN IF body = <<>> \/ \E i \in 1..Len(body) : ~IsDigit(body[i])
            THEN [err |-> "ValueError", n |-> 0]
            ELSE [err |-> "none",
                  n   |-> IF sgn /\ cs[1] = "-" THEN 0 - DigitsValue(body)
                          ELSE DigitsValue(body)]

\* str(n) for an integer, as docopt hands option values over.
RECURSIVE NatChars(_)
NatChars(n) ==
    IF n < 10 THEN <<Digits[n + 1]>>
    ELSE Append(NatChars(n \div 10), Digits[(n % 10) + 1])
IntChars(n) == IF n < 0 THEN <<"-">> \o NatChars(0 - n) ELSE NatChars(n)

\* ---------------------------------------------------------------- rationals
Abs(x)      == IF x < 0 THEN 0 - x ELSE x
Max(a, b)   == IF a >= b THEN a ELSE b
Rat(n, d)   == [num |-> n, den |-> d]
RatSub(a, b) == Rat(a.num * b.den - b.num * a.den, a.den * b.den)
RatDiv(a, b) == Rat(a.num * b.den, a.den * b.num)
RatIsZero(a) == a.num = 0
RatPos(a)   == (a.num > 0 /\ a.den > 0) \/ (a.num < 0 /\ a.den < 0)
RatNeg(a)   == (a.num > 0 /\ a.den < 0) \/ (a.num < 0 /\ a.den > 0)
RatLeq(a, b) == ~RatPos(RatSub(a, b))

\* round(p / q) to the nearest integer, ties to even, for p >= 0 and q > 0
RoundHalfEven(p, q) ==
    LET f == p \div q
        r == p % q
    IN IF 2 * r < q THEN f
       ELSE IF 2 * r > q THEN f + 1
       ELSE IF f % 2 = 0 THEN f ELSE f + 1

RECURSIVE Pow10(_)
Pow10(k) == IF k = 0 THEN 1 ELSE 10 * Pow10(k - 1)

\* decimal exponent of a / b for a, b > 0: the e with 10^e <= a/b < 10^(e+1)
RECURSIVE ExpUp(_, _)
ExpUp(a, b) == IF a >= 10 * b THEN 1 + ExpUp(a, 10 * b) ELSE 0
RECURSIVE ExpDown(_, _)
ExpDown(a, b) == IF a < b THEN ExpDown(10 * a, b) - 1 ELSE 0
Exp10(a, b) == IF a >= b THEN ExpUp(a, b) ELSE ExpDown(a, b)

\* ------------------------------------------------------------ report cells
\* One cell of the printed table.  kind "int" is the literal 0, kind "str"
\* the literal "0%"; "sci" is a '{:.2e}' string  m/100 * 10^e  and "pct" a
\* '{:.2%}' string  m/100 percent.
Cell(k, neg, m, e) == [kind |-> k, neg |-> neg, m |-> m, e |-> e]
LiteralZero    == Cell("int", FALSE, 0, 0)
LiteralZeroPct == Cell("str", FALSE, 0, 0)

\* "{:.2e}".format(x): three significant digits and a decimal exponent
FormatSci(x) ==
    IF x.num = 0 THEN Cell("sci", FALSE, 0, 0)
    ELSE LET a  == Abs(x.num)
             b  == Abs(x.den)
             e  == Exp10(a, b)
             m  == IF e <= 2 THEN RoundHalfEven(a * Pow10(2 - e), b)
                   ELSE RoundHalfEven(a, b * Pow10(e - 2))
         IN IF m = 1000 THEN Cell("sci", RatNeg(x), 100, e + 1)
            ELSE Cell("sci", RatNeg(x), m, e)

\* "{:.2%}".format(x): x * 100 with two decimals, m in hundredths of a percent
FormatPct(x) ==
    Cell("pct", RatNeg(x), RoundHalfEven(Abs(x.num) * 10000, Abs(x.den)), 0)

\* ------------------------------------------------ code and setup snippets
\* generate_simpleion_load_test_code: the statement timed by timeit, kept as
\* the call it makes instead of its source text.
generate_simpleion_load_test_code(file, single_value, emit_bare_values) ==
    [open |-> file, single_value |-> single_value,
     emit_bare_values |-> emit_bare_values]

\* variation: the branch that enables the collector is lost
generate_simpleion_load_setup_NoEnable(gc) ==
    IF gc THEN <<"import amazon.ion.simpleion as ion", "import gc">>
    ELSE <<"import amazon.ion.simpleion as ion">>

\* generate_simpleion_load_setup: the setup snippet, one entry per statement.
generate_simpleion_load_setup(gc) ==
    IF gc THEN <<"import amazon.ion.simpleion as ion", "import gc", "gc.enable()">>
    ELSE <<"import amazon.ion.simpleion as ion">>

\* Effect of running a setup snippet on the cyclic-collection flag.
RECURSIVE ExecSetup(_, _)
ExecSetup(stmts, flag) ==
    IF stmts = <<>> THEN flag
    ELSE ExecSetup(Tail(stmts),
                   IF Head(stmts) = "gc.enable()" THEN TRUE
                   ELSE IF Head(stmts) = "gc.disable()" THEN FALSE
                   ELSE flag)

\* variation: the first timed run repeats `warmups` times, not `iterations`
timeit_call_WarmupCount(k, iterations, warmups, file) ==
    LET wrapped == generate_simpleion_load_test_code(file, FALSE, FALSE)
        bare    == generate_simpleion_load_test_code(file, FALSE, TRUE)
        with_gc == <<"import amazon.ion.simpleion as ion", "import gc", "gc.enable()">>
        without == <<"import amazon.ion.simpleion as ion">>
    IN [stmt   |-> IF k \in {3, 6} THEN bare ELSE wrapped,
        setup  |-> IF k \in {1, 4} THEN with_gc ELSE without,
        number |-> IF k <= 4 THEN warmups ELSE iterations]

\* The six timeit.timeit calls of read_micro_benchmark_simpleion, in program
\* order: 1..3 are the warm-ups, 4..6 the timed runs.
timeit_call(k, iterations, warmups, file) ==
    LET setup_without_gc == generate_simpleion_load_setup(FALSE)
        setup_with_gc    == generate_simpleion_load_setup(TRUE)
        test_code == generate_simpleion_load_test_code(file, FALSE, FALSE)
        test_code_without_wrapper ==
            generate_simpleion_load_test_code(file, FALSE, TRUE)
    IN CASE k = 1 -> [stmt |-> test_code, setup |-> setup_with_gc, number |-> warmups]
         [] k = 2 -> [stmt |-> test_code, setup |-> setup_without_gc, number |-> warmups]
         [] k = 3 -> [stmt |-> test_code_without_wrapper, setup |-> setup_without_gc,
                      number |-> warmups]
         [] k = 4 -> [stmt |-> test_code, setup |-> setup_with_gc, number |-> iterations]
         [] k = 5 -> [stmt |-> test_code, setup |-> setup_without_gc,
                      number |-> iterations]
         [] k = 6 -> [stmt |-> test_code_without_wrapper, setup |-> setup_without_gc,
                      number |-> iterations]

\* variation: the divisor is guarded, so zero iterations no longer fails
Mean_Guarded(timing, iterations) ==
    [err |-> "none", v |-> Rat(timing, IF iterations = 0 THEN 1 ELSE iterations)]

\* timeit.timeit(...) / iterations (lines 88-91): the mean of the timed runs;
\* dividing a float by the int 0 raises ZeroDivisionError
Mean(timing, iterations) ==
    IF iterations = 0 THEN [err |-> "ZeroDivisionError", v |-> Rat(0, 1)]
    ELSE [err |-> "none", v |-> Rat(timing, iterations)]

\* itertools.repeat(None, number) yields nothing for number <= 0
Loops(number) == IF number > 0 THEN number ELSE 0

\* API option -> benchmark function (ion_python_benchmark_cli, lines 146-154)
SelectFunction(api) ==
    IF ~Truthy(api) \/ api.s = SIMPLE_ION THEN "simpleion"
    ELSE IF api.s = ITERATOR THEN "iterator"
    ELSE IF api.s = NON_BLOCKING THEN "non_blocking"
    ELSE "invalid"

\* ------------------------------------------------------------- tracemalloc
\* traced memory is <<current, peak>>, as tracemalloc.get_traced_memory()
TracedAfterLoad(tracing, traced, a) ==
    IF tracing THEN <<traced[1], Max(traced[2], traced[1] + a)>> ELSE traced
get_traced_memory(tracing, traced) == IF tracing THEN traced ELSE <<0, 0>>

\* variation: index 0 of the pair, the current size, is read
memory_usage_peak_Current(tm) == Rat(tm[1], BYTES_TO_MB)

\* memory_usage_peak = tracemalloc.get_traced_memory()[1] / BYTES_TO_MB
memory_usage_peak(tm) == Rat(tm[2], BYTES_TO_MB)

\* --------------------------------------------------------------- the table
\* The unpacking of the benchmark function's return value (line 111): a
\* function that returns None cannot be unpacked.
Unpack(r) == IF r.isNone THEN [err |-> "TypeError", v |-> r]
             ELSE [err |-> "none", v |-> r]

\* variation: the clamp tests >= 0, so a zero difference is formatted
TimeCell_NonStrict(t) == IF ~RatNeg(t) THEN FormatSci(t) ELSE LiteralZero

\* garbage_collection_time / conversion_time cell (lines 121, 123)
TimeCell(t) == IF RatPos(t) THEN FormatSci(t) ELSE LiteralZero
\* variation: the quotient is inverted
PctCell_Inverted(t, total) == IF RatPos(t) THEN FormatPct(RatDiv(total, t))
                              ELSE LiteralZeroPct

\* percentage cell (lines 122, 124); the division comes first when t > 0
PctCell(t, total) == IF RatPos(t) THEN FormatPct(RatDiv(t, total))
                     ELSE LiteralZeroPct
PctRaises(t, total) == RatPos(t) /\ RatIsZero(total)

\* The row handed to read_generate_report (lines 116-125)
ReportRow(file_size, result_with_gc, result_without_gc, result_with_raw_value, peak) ==
    LET garbage_collection_time == RatSub(result_with_gc, result_without_gc)
        conversion_time == RatSub(result_without_gc, result_with_raw_value)
    IN [file_size |-> FormatSci(file_size),
        total_time |-> FormatSci(result_with_gc),
        execution_time |-> FormatSci(result_without_gc),
        garbage_collection_time |-> TimeCell(garbage_collection_time),
        gc_time_percentage |->
            PctCell(garbage_collection_time, result_with_gc),
        conversion_time |-> TimeCell(conversion_time),
        wrapper_time_percentage |-> PctCell(conversion_time, result_with_gc),
        memory_usage_peak |-> FormatSci(peak)]

\* Exit status of the interpreter: 1 after an uncaught exception, else 0
ExitStatus(raised) == IF raised THEN 1 ELSE 0

\* ------------------------------------------------------------------- state
VARIABLES
    arguments,    \* the dictionary handed to ion_python_benchmark_cli
    env,          \* what the invocation finds: the file and the gc flag
    pc,           \* position of the single thread of control
    error,        \* type of the exception raised, "none" if none
    exit_status,  \* exit status of the process, -1 while it runs
    stdout,       \* notices printed so far
    tables,       \* tables printed so far (rows handed to tabulate)
    gc_enabled,   \* gc.isenabled()
    tracing,      \* tracemalloc.is_tracing()
    traced,       \* tracemalloc's <<current, peak>>
    now,          \* reading of timeit's timer
    frame,        \* locals of cli / read_micro_benchmark_and_profiling
    bench,        \* locals of read_micro_benchmark_simpleion
    timer,        \* locals of timeit.Timer.timeit
    rtn,          \* value returned by the benchmark function
    log,          \* history: one entry per executed load
    spent,        \* history: summed duration of the loads of each timed call
    peaks         \* history: highest load high-water mark, of the timed runs
                  \* of the first variant (call 4) and of all other loads

vars == <<arguments, env, pc, error, exit_status, stdout, tables, gc_enabled,
          tracing, traced, now, frame, bench, timer, rtn, log, spent, peaks>>

\* ------------------------------------------------------------------ inputs
Commands    == {"read", "write", "generate"}
InputFiles  == {NoneStr, PyStr("data.10n")}
ApiArgs     == {NoneStr, PyStr(SIMPLE_ION), PyStr(ITERATOR), PyStr(NON_BLOCKING),
                PyStr("dom")}
IterationArgs == {NoneNum, NumStr(<<"x">>)}
                 \cup {NumStr(IntChars(n)) : n \in -1..MaxIterations}
WarmupArgs  == {NumStr(IntChars(n)) : n \in -1..MaxWarmups}
FileSizes   == {10 * BYTES_TO_MB}

NoReturn == [isNone |-> TRUE, file_size |-> Rat(0, 1), results |-> <<>>]

Init ==
    /\ arguments \in [command : Commands, input_file : InputFiles, api : ApiArgs,
                      iterations : IterationArgs, warmups : WarmupArgs]
    /\ env \in [file_exists : BOOLEAN, st_size : FileSizes, gc_at_start : BOOLEAN]
    /\ pc = "cli"
    /\ error = "none"
    /\ exit_status = -1
    /\ stdout = <<>>
    /\ tables = <<>>
    /\ gc_enabled = env.gc_at_start
    /\ tracing = FALSE
    /\ traced = <<0, 0>>
    /\ now = 0
    /\ frame = [fn |-> "none", file |-> NoneStr, iterations |-> 0, warmups |-> 0]
    /\ bench = [k |-> 0, file_size |-> Rat(0, 1), results |-> <<>>]
    /\ timer = [gcold |-> FALSE, t0 |-> 0, remaining |-> 0]
    /\ rtn = NoReturn
    /\ log = <<>>
    /\ spent = [k \in 4..6 |-> 0]
    /\ peaks = [timed_A |-> 0, rest |-> 0]

Raise(e) == /\ error' = e
            /\ pc' = "raised"

\* ------------------------------------------------------------------ actions
\* ion_python_benchmark_cli(arguments), lines 138-161, up to the call of
\* read_micro_benchmark_and_profiling
ion_python_benchmark_cli ==
    /\ pc = "cli"
    /\ LET it == PyInt(arguments.iterations)
           wu == PyInt(arguments.warmups)
           fn == SelectFunction(arguments.api)
       IN IF ~Truthy(arguments.input_file)
          THEN Raise("Exception") /\ UNCHANGED <<frame, stdout>>
          ELSE IF it.err # "none"
          THEN Raise(it.err) /\ UNCHANGED <<frame, stdout>>
          ELSE IF wu.err # "none"
          THEN Raise(wu.err) /\ UNCHANGED <<frame, stdout>>
          ELSE IF arguments.command = "read"
          THEN IF fn = "invalid"
               THEN Raise("Exception") /\ UNCHANGED <<frame, stdout>>
               ELSE /\ frame' = [fn |-> fn, file |-> arguments.input_file,
                                 iterations |-> it.n, warmups |-> wu.n]
                    /\ pc' = "profiling"
                    /\ UNCHANGED <<error, stdout>>
          ELSE IF arguments.command = "write"
          THEN /\ stdout' = Append(stdout, "Write feature is not supported yet")
               /\ pc' = "returned"
               /\ UNCHANGED <<error, frame>>
          ELSE /\ stdout' = Append(stdout, "Generate feature is not supported yet")
               /\ pc' = "returned"
               /\ UNCHANGED <<error, frame>>
    /\ UNCHANGED <<arguments, env, exit_status, tables, gc_enabled, tracing,
                   traced, now, bench, timer, rtn, log, spent, peaks>>

\* read_micro_benchmark_and_profiling, lines 105-112: validation,
\* tracemalloc.start() and the call of the benchmark function
read_micro_benchmark_and_profiling ==
    /\ pc = "profiling"
    /\ IF ~Truthy(frame.file) \/ frame.fn = "none"
       THEN Raise("Exception") /\ UNCHANGED <<tracing, traced>>
       ELSE /\ tracing' = TRUE
            /\ traced' = IF tracing THEN traced ELSE <<0, 0>>
            /\ pc' = frame.fn
            /\ UNCHANGED error
    /\ UNCHANGED <<arguments, env, exit_status, stdout, tables, gc_enabled, now,
                   frame, bench, timer, rtn, log, spent, peaks>>

\* read_micro_benchmark_iterator, lines 96-97: `pass`, returns None
read_micro_benchmark_iterator ==
    /\ pc = "iterator"
    /\ rtn' = NoReturn
    /\ pc' = "report"
    /\ UNCHANGED <<arguments, env, error, exit_status, stdout, tables, gc_enabled,
                   tracing, traced, now, frame, bench, timer, log, spent, peaks>>

\* read_micro_benchmark_non_blocking, lines 100-101: `pass`, returns None
read_micro_benchmark_non_blocking ==
    /\ pc = "non_blocking"
    /\ rtn' = NoReturn
    /\ pc' = "report"
    /\ UNCHANGED <<arguments, env, error, exit_status, stdout, tables, gc_enabled,
                   tracing, traced, now, frame, bench, timer, log, spent, peaks>>

\* read_micro_benchmark_simpleion, lines 73-80: the stat of the file and the
\* construction of the snippets
read_micro_benchmark_simpleion ==
    /\ pc = "simpleion"
    /\ IF ~env.file_exists
       THEN Raise("FileNotFoundError") /\ UNCHANGED bench
       ELSE /\ bench' = [k |-> 1, file_size |-> Rat(env.st_size, BYTES_TO_MB),
                         results |-> <<>>]
            /\ pc' = "timeit"
            /\ UNCHANGED error
    /\ UNCHANGED <<arguments, env, exit_status, stdout, tables, gc_enabled,
                   tracing, traced, now, frame, timer, rtn, log, spent, peaks>>

\* timeit.timeit(stmt, setup, number) up to the loop: remember and disable
\* the collector, run the setup, read the timer
timeit_begin ==
    /\ pc = "timeit"
    /\ LET c == timeit_call(bench.k, frame.iterations, frame.warmups, frame.file)
       IN /\ timer' = [gcold |-> gc_enabled, t0 |-> now,
                       remaining |-> Loops(c.number)]
          /\ gc_enabled' = ExecSetup(c.setup, FALSE)
    /\ pc' = "loop"
    /\ UNCHANGED <<arguments, env, error, exit_status, stdout, tables, tracing,
                   traced, now, frame, bench, rtn, log, spent, peaks>>

\* one execution of the statement: open the file and ion.load it.  It takes d
\* ticks and drives traced memory a units above its level, or it fails; on a
\* failure timeit's `finally` restores the collector.
timeit_stmt ==
    /\ pc = "loop"
    /\ timer.remaining > 0
    /\ LET c == timeit_call(bench.k, frame.iterations, frame.warmups, frame.file)
       IN \E ok \in BOOLEAN, d \in 0..MaxDuration, a \in 1..MaxAlloc :
            IF ok
            THEN /\ now' = now + d
                 /\ traced' = TracedAfterLoad(tracing, traced, a)
                 /\ timer' = [timer EXCEPT !.remaining = @ - 1]
                 /\ log' = Append(log, [call |-> bench.k, gc |-> gc_enabled,
                                        bare |-> c.stmt.emit_bare_values,
                                        tracing |-> tracing])
                 /\ spent' = IF bench.k >= 4
                              THEN [spent EXCEPT ![bench.k] = @ + d]
                              ELSE spent
                 /\ peaks' = IF bench.k = 4
                              THEN [peaks EXCEPT !.timed_A = Max(@, a)]
                              ELSE [peaks EXCEPT !.rest = Max(@, a)]
                 /\ UNCHANGED <<error, pc, gc_enabled>>
            ELSE /\ Raise("OSError")
                 /\ gc_enabled' = (timer.gcold \/ gc_enabled)
                 /\ UNCHANGED <<now, traced, timer, log, spent, peaks>>
    /\ UNCHANGED <<arguments, env, exit_status, stdout, tables, tracing, frame,
                   bench, rtn>>

\* the end of a timeit call: read the timer, restore the collector; for the
\* timed runs (lines 88-91) divide by `iterations`; after the sixth call
\* return the tuple (line 93)
timeit_end ==
    /\ pc = "loop"
    /\ timer.remaining = 0
    /\ gc_enabled' = (timer.gcold \/ gc_enabled)
    /\ LET timing == now - timer.t0
           mean   == Mean(timing, frame.iterations)
       IN IF bench.k <= 3
          THEN /\ bench' = [bench EXCEPT !.k = @ + 1]
               /\ pc' = "timeit"
               /\ UNCHANGED <<error, rtn>>
          ELSE IF mean.err # "none"
          THEN Raise(mean.err) /\ UNCHANGED <<bench, rtn>>
          ELSE /\ bench' = [bench EXCEPT
                              !.k = @ + 1,
                              !.results = Append(@, mean.v)]
               /\ IF bench.k = 6
                  THEN /\ rtn' = [isNone |-> FALSE, file_size |-> bench.file_size,
                                  results |-> bench'.results]
                       /\ pc' = "report"
                  ELSE /\ pc' = "timeit"
                       /\ UNCHANGED rtn
               /\ UNCHANGED error
    /\ UNCHANGED <<arguments, env, exit_status, stdout, tables, tracing, traced,
                   now, frame, timer, log, spent, peaks>>

\* read_micro_benchmark_and_profiling, lines 111-125, and
\* read_generate_report: unpack the result, read the peak, stop tracing,
\* compute the metrics and print the table
read_generate_report ==
    /\ pc = "report"
    /\ LET u == Unpack(rtn)
           r == u.v.results
           peak == memory_usage_peak(get_traced_memory(tracing, traced))
       IN IF u.err # "none"
          THEN Raise(u.err) /\ UNCHANGED <<tracing, traced, tables>>
          ELSE /\ tracing' = FALSE
               /\ traced' = <<0, 0>>
               /\ IF \/ PctRaises(RatSub(r[1], r[2]), r[1])
                     \/ PctRaises(RatSub(r[2], r[3]), r[1])
                  THEN Raise("ZeroDivisionError") /\ UNCHANGED tables
                  ELSE /\ tables' = Append(tables,
                                ReportRow(u.v.file_size, r[1], r[2], r[3], peak))
                       /\ pc' = "returned"
                       /\ UNCHANGED error
    /\ UNCHANGED <<arguments, env, exit_status, stdout, gc_enabled, now, frame,
                   bench, timer, rtn, log, spent, peaks>>

\* the end of the process (lines 164-165): an exception that reached the top
\* level ends it with status 1, a normal return with status 0
exit ==
    /\ pc \in {"raised", "returned"}
    /\ exit_status' = ExitStatus(pc = "raised")
    /\ pc' = "exited"
    /\ UNCHANGED <<arguments, env, error, stdout, tables, gc_enabled, tracing,
                   traced, now, frame, bench, timer, rtn, log, spent, peaks>>

Next ==
    \/ ion_python_benchmark_cli
    \/ read_micro_benchmark_and_profiling
    \/ read_micro_benchmark_iterator
    \/ read_micro_benchmark_non_blocking
    \/ read_micro_benchmark_simpleion
    \/ timeit_begin
    \/ timeit_stmt
    \/ timeit_end
    \/ read_generate_report
    \/ exit

Spec == Init /\ [][Next]_vars

\* ============================================================== properties
Printed   == tables # <<>>
Ended     == pc = "exited"
Iterations == PyInt(arguments.iterations)
Warmups    == PyInt(arguments.warmups)
NumbersOk == Iterations.err = "none" /\ Warmups.err = "none"
IsRead    == arguments.command = "read"
SampleA   == rtn.results[1]
SampleB   == rtn.results[2]
SampleC   == rtn.results[3]
NonNegSamples == ~RatNeg(SampleA) /\ ~RatNeg(SampleB) /\ ~RatNeg(SampleC)

\* a percentage cell that is a ratio in [0, 1]
InUnit(c) == \/ c = LiteralZeroPct
             \/ c.kind = "pct" /\ ~c.neg /\ c.m <= 10000

RECURSIVE Rep(_, _)
Rep(x, n) == IF n <= 0 THEN <<>> ELSE <<x>> \o Rep(x, n - 1)
ExpectedCalls(w, n) ==
    Rep(1, w) \o Rep(2, w) \o Rep(3, w) \o Rep(4, n) \o Rep(5, n) \o Rep(6, n)
CallsOf(l) == [i \in DOMAIN l |-> l[i].call]

\* C1: `write` or `generate` without an <input_file> prints its "not
\* supported" notice and ends with exit code 0, with no exception, no
\* measurement and no table.  (Stated as the claim; the code violates it.)
C1_NoticeAndExitZero ==
    (Ended /\ arguments.command \in {"write", "generate"}
           /\ arguments.input_file = NoneStr /\ NumbersOk)
    => /\ error = "none"
       /\ exit_status = 0
       /\ stdout = <<IF arguments.command = "write"
                     THEN "Write feature is not supported yet"
                     ELSE "Generate feature is not supported yet">>
       /\ log = <<>>
       /\ tables = <<>>

\* C2: `read` with --api iterator or nonBlocking on an existing file ends
\* without an unhandled exception and without a table.  (Stated as the
\* claim; the code violates it.)
C2_NotImplementedNoCrash ==
    (Ended /\ IsRead /\ Truthy(arguments.input_file) /\ env.file_exists
           /\ NumbersOk /\ Iterations.n >= 1 /\ Warmups.n >= 0
           /\ ~arguments.api.isNone /\ arguments.api.s \in {ITERATOR, NON_BLOCKING})
    => /\ error = "none"
       /\ tables = <<>>

\* C3: a `read` run with iterations = 0 is rejected by argument validation:
\* the error is the validation error, raised before any timing call, never a
\* ZeroDivisionError from the middle of the measurement; no table is printed.
\* (Stated as the claim; the code violates it.)
C3_ZeroIterationsRejected ==
    (Ended /\ IsRead /\ NumbersOk /\ Iterations.n = 0)
    => /\ error = "Exception"
       /\ bench.k = 0
       /\ log = <<>>
       /\ tables = <<>>

\* C4: in every printed report the garbage_collection_time and
\* conversion_time cells are never negative; when sample_A - sample_B is not
\* positive the garbage-collection cell is the literal 0 and its percentage
\* the literal "0%", and likewise for conversion when sample_B - sample_C is
\* not positive.
C4_ClampingLaw ==
    \A i \in DOMAIN tables :
        LET row == tables[i]
        IN /\ ~row.garbage_collection_time.neg
           /\ ~row.conversion_time.neg
           /\ RatLeq(SampleA, SampleB)
                => /\ row.garbage_collection_time = LiteralZero
                   /\ row.gc_time_percentage = LiteralZeroPct
           /\ RatLeq(SampleB, SampleC)
                => /\ row.conversion_time = LiteralZero
                   /\ row.wrapper_time_percentage = LiteralZeroPct

\* C4 witness: a report printed for samples with sample_B above sample_A and
\* sample_B equal to sample_C
C4_Witness ==
    /\ Printed
    /\ RatPos(RatSub(SampleB, SampleA))
    /\ RatIsZero(RatSub(SampleB, SampleC))
    /\ tables[1].garbage_collection_time = LiteralZero
    /\ tables[1].conversion_time = LiteralZero

\* C5 (as claimed): for non-negative samples with sample_A > 0 both reported
\* percentages are ratios in [0, 1], for any ordering of the samples.
C5_BothPercentagesInUnit ==
    (Printed /\ NonNegSamples /\ RatPos(SampleA))
    => /\ InUnit(tables[1].gc_time_percentage)
       /\ InUnit(tables[1].wrapper_time_percentage)

\* C5 (amended): for non-negative samples with sample_A > 0 the
\* garbage-collection percentage is a ratio in [0, 1] and the conversion
\* percentage is never negative; the conversion percentage is in [0, 1]
\* whenever sample_B <= sample_A.
C5_PercentagesBounded ==
    (Printed /\ NonNegSamples /\ RatPos(SampleA))
    => /\ InUnit(tables[1].gc_time_percentage)
       /\ ~tables[1].wrapper_time_percentage.neg
       /\ RatLeq(SampleB, SampleA) => InUnit(tables[1].wrapper_time_percentage)

\* C5 witness: a report with both overheads positive and sample_B <= sample_A
C5_Witness ==
    /\ Printed /\ NonNegSamples /\ RatPos(SampleA)
    /\ RatLeq(SampleB, SampleA)
    /\ tables[1].gc_time_percentage.kind = "pct"
    /\ tables[1].wrapper_time_percentage.kind = "pct"

\* the read invocations the error taxonomy calls failing
ReadFails ==
    /\ IsRead
    /\ \/ ~Truthy(arguments.input_file)
       \/ SelectFunction(arguments.api) = "invalid"
       \/ ~env.file_exists
       \/ Iterations.err = "none" /\ Iterations.n = 0

\* C6: a failing invocation (missing <input_file>, unknown --api, missing
\* file, zero iterations, or any raised error such as a failed load) never
\* prints the table and ends with a non-zero status; a table is printed at most
\* once and only after all six timing calls of the three variants completed.
C6_ErrorsFatalBeforeReport ==
    /\ (ReadFails \/ error # "none") => tables = <<>>
    /\ (Ended /\ (ReadFails \/ error # "none")) => exit_status # 0
    /\ Len(tables) <= 1
    /\ Printed => /\ error = "none"
                  /\ bench.k = 7
                  /\ Len(bench.results) = 3

\* C6 witness: a run that failed inside a load after earlier loads succeeded
\* and has ended
C6_Witness ==
    /\ Ended /\ error = "OSError" /\ log # <<>>
    /\ exit_status = 1 /\ tables = <<>>

\* C7 (as claimed): the reported memory_usage_peak is the peak of the timed
\* executions of variant A only.
C7_PeakOfTimedAOnly ==
    Printed => tables[1].memory_usage_peak
                   = FormatSci(Rat(peaks.timed_A, BYTES_TO_MB))

\* C7 (amended): the reported memory_usage_peak is the peak over the whole
\* traced span, that is over every warm-up and every timed execution of all
\* three variants.
C7_PeakOfWholeSequence ==
    Printed => tables[1].memory_usage_peak
                   = FormatSci(Rat(Max(peaks.timed_A, peaks.rest), BYTES_TO_MB))

\* C7 witness: a report where a load outside the timed runs of variant A
\* reached a higher mark than those runs did
C7_Witness ==
    /\ Printed
    /\ peaks.timed_A > 0
    /\ peaks.rest > peaks.timed_A

\* C8: allocation tracking is off before the arguments are validated, and it
\* is stopped on every path out: it is off when the invocation has ended and
\* off when the table is printed.  (Stated as the claim; the code violates it.)
C8_TrackingScoped ==
    /\ pc \in {"cli", "profiling"} => ~tracing
    /\ Printed => ~tracing
    /\ Ended => ~tracing

\* C9: in a successful simpleIon run with warmups W >= 0 and iterations N >= 1
\* the loads are exactly W warm-ups of A, of B and of C followed by N timed
\* executions of A, of B and of C, in that order (3W + 3N loads), and each
\* sample is the summed duration of the variant's timed loads divided by N.
C9_LoadCountsAndOrder ==
    (Printed /\ frame.fn = "simpleion" /\ Warmups.n >= 0 /\ Iterations.n >= 1)
    => /\ CallsOf(log) = ExpectedCalls(Warmups.n, Iterations.n)
       /\ Len(log) = 3 * Warmups.n + 3 * Iterations.n
       /\ \A v \in 1..3 : rtn.results[v] = Rat(spent[3 + v], Iterations.n)

\* C9 witness: a successful run with one warm-up and two iterations in which
\* the timed loads took time
C9_Witness ==
    /\ Printed /\ frame.fn = "simpleion"
    /\ Warmups.n = 1 /\ Iterations.n = 2
    /\ Len(log) = 9
    /\ spent[4] = 2 /\ spent[5] = 1 /\ spent[6] = 0

\* C10: every load, warm-up or timed, runs under its variant's settings
\* whatever the collector flag was at the start: variant A (calls 1, 4) with
\* cyclic collection enabled and wrapped values, variant B (calls 2, 5) with
\* collection disabled and wrapped values, variant C (calls 3, 6) with
\* collection disabled and raw values; the setup without gc holds no statement
\* that disables the collector.
C10_VariantConfiguration ==
    /\ \A i \in DOMAIN log :
         LET e == log[i]
         IN CASE e.call \in {1, 4} -> e.gc /\ ~e.bare
              [] e.call \in {2, 5} -> ~e.gc /\ ~e.bare
              [] e.call \in {3, 6} -> ~e.gc /\ e.bare
    /\ pc = "loop" /\ bench.k \notin {1, 4}
         => LET c == timeit_call(bench.k, frame.iterations, frame.warmups, frame.file)
            IN /\ \A j \in DOMAIN c.setup : c.setup[j] # "gc.disable()"
               /\ ~gc_enabled

\* C10 witness: a complete run that began with the collector disabled
C10_Witness ==
    /\ Printed /\ ~env.gc_at_start
    /\ Len(log) >= 6
    /\ \A k \in 1..6 : \E i \in DOMAIN log : log[i].call = k
====
